---- MODULE Spec2Model ----
(***************************************************************************)
(* Model of the railwat parameter pipeline and collision arbitration.      *)
(*                                                                         *)
(* Numbers.  The Python code computes in floats; the model computes in     *)
(* 32-bit integers:                                                        *)
(*   - latitudes and longitudes are in units of 1e-5 degree;               *)
(*   - distances returned by haversine are in micrometres;                 *)
(*   - indicators and station quantities are fixed-point, in thousandths   *)
(*     (1.0 is 1000), every division rounding towards minus infinity.      *)
(* A Python dict is a function whose DOMAIN is the set of keys present, so *)
(* d.get(k, default) and the KeyError of d[k] are both modelled.           *)
(*                                                                         *)
(* Each component is a pure function of its request, so each has its own   *)
(* specification over the variables it owns: SpecDecide (collision         *)
(* arbitration), SpecTrain (train kinematics) and SpecStation (station     *)
(* capacity).                                                              *)
(***************************************************************************)
EXTENDS Integers, Sequences, FiniteSets, TLC

VARIABLES
    decideTrains,   \* the list handed to decide_collision_action
    decision,       \* what decide_collision_action returned
    snapshots,      \* the caller's list of train snapshots (kinematics)
    results,        \* what compute_train_parameters returned last
    calls,          \* calls of compute_train_parameters on this list so far
    hist,           \* per snapshot, the speed it carried at each call
    stationArgs,    \* the keyword arguments of compute_station_parameters
    stationResult,  \* what compute_station_parameters returned
    trackStations,  \* the stations handed to compute_track_parameters
    trackEdges,     \* the edges handed to compute_track_parameters
    trackResult,    \* what compute_track_parameters returned
    edgeLog,        \* the calls of compute_edge_metrics so far, with results
    trackLog,       \* the results of repeated compute_track_parameters calls
    segStations,    \* the stations mapping handed to segment_track
    segEdge,        \* <<u, v>> handed to segment_track
    segResult,      \* what segment_track did: segments, generator calls
    p140Args,       \* <<trains, stations, edges>> of compute140Parameters
    p140Result,     \* the triple compute140Parameters returned
    station_env,    \* extreme_ai_server.station_env (process-wide)
    segment_env_map,\* extreme_ai_server.segment_env_map (process-wide)
    request,        \* the body of the last /decide request
    response        \* what the last /decide request got

vars == <<decideTrains, decision, snapshots, results, calls, hist,
          stationArgs, stationResult, trackStations, trackEdges, trackResult,
          edgeLog, trackLog, segStations, segEdge, segResult, p140Args,
          p140Result, station_env, segment_env_map, request, response>>

decideVars == <<decideTrains, decision>>

trainVars == <<snapshots, results, calls, hist>>

stationVars == <<stationArgs, stationResult>>

trackVars == <<trackStations, trackEdges, trackResult, edgeLog, trackLog>>

segVars == <<segStations, segEdge, segResult>>

p140Vars == <<p140Args, p140Result>>

endpointVars == <<station_env, segment_env_map, request, response>>

\* The components as they are while another one is exercised.
IdleDecide == decideTrains = <<>> /\ decision = [action |-> "PENDING"]

IdleTrain == snapshots = <<>> /\ results = <<>> /\ calls = 0 /\ hist = <<>>

IdleStation == stationArgs = <<>> /\ stationResult = <<>>

IdleTrack ==
    /\ trackStations = <<>> /\ trackEdges = <<>> /\ trackResult = <<>>
    /\ edgeLog = <<>> /\ trackLog = <<>>

IdleSeg == segStations = <<>> /\ segEdge = <<>> /\ segResult = <<>>

IdleP140 == p140Args = <<>> /\ p140Result = <<>>

IdleEndpoint ==
    /\ station_env = <<>> /\ segment_env_map = <<>>
    /\ request = <<>> /\ response = <<>>

----------------------------------------------------------------------------
(* Generic helpers *)

\* dict.get(key, default)
Get(d, key, default) == IF key \in DOMAIN d THEN d[key] ELSE default

Abs(x) == IF x < 0 THEN -x ELSE x

Min(a, b) == IF a <= b THEN a ELSE b

Max(a, b) == IF a >= b THEN a ELSE b

\* math.sqrt on an integer radicand, rounded down (bisection on [lo, hi]).
RECURSIVE SqrtBetween(_, _, _)
SqrtBetween(x, lo, hi) ==
    IF lo >= hi THEN lo
    ELSE LET mid == (lo + hi + 1) \div 2
         IN  IF mid * mid <= x THEN SqrtBetween(x, mid, hi)
                               ELSE SqrtBetween(x, lo, mid - 1)

Sqrt(x) == SqrtBetween(x, 0, 46340)

\* a * k / b rounded down, for a divisor b > 0; the quotient is split so
\* that no intermediate product leaves 32 bits.
MulDiv(a, k, b) ==
    IF b % k = 0
    THEN a \div (b \div k)
    ELSE (a \div b) * k + ((a % b) * k) \div b

\* a / b in thousandths, rounded down, for a divisor b > 0.
FDiv(a, b) == MulDiv(a, 1000, b)

\* max(lo, min(hi, v))
Clamp(v, lo, hi) == Max(lo, Min(hi, v))

----------------------------------------------------------------------------
(* Geodesy utility: extreme_ai_server.py, haversine *)

\* Earth radius in metres.
R == 6371000

\* Great-circle distance in micrometres between two points given in units
\* of 1e-5 degree.  The model's points lie within 0.02 degree of (0, 0);
\* there cos(lat) differs from 1 by less than 1e-7 and sin and asin from the
\* identity by less than 1e-8, so 2*R*asin(sqrt(a)) is R times the planar
\* angle sqrt(dLat^2 + dLon^2) in radians.  The angle is taken in tenths of
\* a unit; pi/180 is 0.0174533, so a tenth of a unit is R * 0.0174533
\* micrometres long.
haversine(lat1, lon1, lat2, lon2) ==
    LET dLat == lat2 - lat1
        dLon == lon2 - lon1
        a == (dLat * dLat + dLon * dLon) * 100
    IN  Sqrt(a) * (((R \div 1000) * 174533) \div 10000)

----------------------------------------------------------------------------
(* Collision arbitration: extreme_ai_server.py, decide_collision_action *)

\* The safety hard-stop distance, in metres.
CriticalDistance == 35

\* The sibling variant of smart_ai_server.py scans every pair of the list
\* for proximity; grafted on this rule it would stop both trains as soon as
\* any two trains of the list are critically close.
RECURSIVE AnyPairClose(_, _, _)
AnyPairClose(trains, i, j) ==
    IF i >= Len(trains) THEN FALSE
    ELSE IF j > Len(trains) THEN AnyPairClose(trains, i + 1, i + 2)
    ELSE IF /\ {"lat", "lon"} \subseteq DOMAIN trains[i]
            /\ {"lat", "lon"} \subseteq DOMAIN trains[j]
            /\ haversine(trains[i]["lat"], trains[i]["lon"],
                         trains[j]["lat"], trains[j]["lon"])
                   <= CriticalDistance * 1000000
         THEN TRUE
         ELSE AnyPairClose(trains, i, j + 1)

\* decide_pair with the priority and speed rules tried before the proximity
\* hard-stop, and a tie on both handed to train A.
decide_pair_rules_first(A, B) ==
    IF ~({"lat", "lon"} \subseteq DOMAIN A /\ {"lat", "lon"} \subseteq DOMAIN B)
    THEN [raised |-> "KeyError"]
    ELSE
    LET dist == haversine(A["lat"], A["lon"], B["lat"], B["lon"])
        prA == Get(A, "priority", 1)
        prB == Get(B, "priority", 1)
        sA == Get(A, "speed", 0)
        sB == Get(B, "speed", 0)
    IN  IF prA > prB \/ (prA = prB /\ sA >= sB)
        THEN [action |-> "STOP_ONE", stop_train |-> B["id"],
              let_pass |-> A["id"], reason |-> "Train A higher priority"]
        ELSE IF prB > prA \/ sB > sA
        THEN [action |-> "STOP_ONE", stop_train |-> A["id"],
              let_pass |-> B["id"], reason |-> "Train B higher priority"]
        ELSE IF dist <= CriticalDistance * 1000000
        THEN [action |-> "STOP_BOTH", reason |-> "Critical proximity"]
        ELSE [action |-> "STOP_BOTH", reason |-> "Same speed & priority"]

\* decide_pair with the faster train passing whatever the priorities are.
decide_pair_speed_first(A, B) ==
    IF ~({"lat", "lon"} \subseteq DOMAIN A /\ {"lat", "lon"} \subseteq DOMAIN B)
    THEN [raised |-> "KeyError"]
    ELSE
    LET dist == haversine(A["lat"], A["lon"], B["lat"], B["lon"])
        prA == Get(A, "priority", 1)
        prB == Get(B, "priority", 1)
        sA == Get(A, "speed", 0)
        sB == Get(B, "speed", 0)
    IN  IF dist <= CriticalDistance * 1000000
        THEN [action |-> "STOP_BOTH", reason |-> "Critical proximity"]
        ELSE IF sA > sB
        THEN [action |-> "STOP_ONE", stop_train |-> B["id"],
              let_pass |-> A["id"], reason |-> "Train A faster"]
        ELSE IF sB > sA
        THEN [action |-> "STOP_ONE", stop_train |-> A["id"],
              let_pass |-> B["id"], reason |-> "Train B faster"]
        ELSE IF prA > prB
        THEN [action |-> "STOP_ONE", stop_train |-> B["id"],
              let_pass |-> A["id"], reason |-> "Train A higher priority"]
        ELSE IF prB > prA
        THEN [action |-> "STOP_ONE", stop_train |-> A["id"],
              let_pass |-> B["id"], reason |-> "Train B higher priority"]
        ELSE [action |-> "STOP_BOTH", reason |-> "Same speed & priority"]

\* decide_pair with a tie on priority and speed handed to train A
\* (sA >= sB for sA > sB).
decide_pair_tie_to_A(A, B) ==
    IF ~({"lat", "lon"} \subseteq DOMAIN A /\ {"lat", "lon"} \subseteq DOMAIN B)
    THEN [raised |-> "KeyError"]
    ELSE
    LET dist == haversine(A["lat"], A["lon"], B["lat"], B["lon"])
        prA == Get(A, "priority", 1)
        prB == Get(B, "priority", 1)
        sA == Get(A, "speed", 0)
        sB == Get(B, "speed", 0)
    IN  IF dist <= CriticalDistance * 1000000
        THEN [action |-> "STOP_BOTH", reason |-> "Critical proximity"]
        ELSE IF prA > prB
        THEN [action |-> "STOP_ONE", stop_train |-> B["id"],
              let_pass |-> A["id"], reason |-> "Train A higher priority"]
        ELSE IF prB > prA
        THEN [action |-> "STOP_ONE", stop_train |-> A["id"],
              let_pass |-> B["id"], reason |-> "Train B higher priority"]
        ELSE IF sA >= sB
        THEN [action |-> "STOP_ONE", stop_train |-> B["id"],
              let_pass |-> A["id"], reason |-> "Train A faster"]
        ELSE [action |-> "STOP_ONE", stop_train |-> A["id"],
              let_pass |-> B["id"], reason |-> "Train B faster"]

\* The arbitration between A and B once the list is known to hold both.
\* A["lat"], A["lon"], B["lat"], B["lon"] raise KeyError when absent.
\* decide_pair letting the first-listed train pass whenever its priority is
\* not lower, without a look at the speeds.
decide_pair_first_listed_wins(A, B) ==
    IF ~({"lat", "lon"} \subseteq DOMAIN A /\ {"lat", "lon"} \subseteq DOMAIN B)
    THEN [raised |-> "KeyError"]
    ELSE IF haversine(A["lat"], A["lon"], B["lat"], B["lon"])
              <= CriticalDistance * 1000000
    THEN [action |-> "STOP_BOTH", reason |-> "Critical proximity"]
    ELSE IF Get(A, "priority", 1) >= Get(B, "priority", 1)
    THEN [action |-> "STOP_ONE", stop_train |-> B["id"],
          let_pass |-> A["id"], reason |-> "Train A higher priority"]
    ELSE [action |-> "STOP_ONE", stop_train |-> A["id"],
          let_pass |-> B["id"], reason |-> "Train B higher priority"]

decide_pair(A, B) ==
    IF ~({"lat", "lon"} \subseteq DOMAIN A /\ {"lat", "lon"} \subseteq DOMAIN B)
    THEN [raised |-> "KeyError"]
    ELSE
    LET dist == haversine(A["lat"], A["lon"], B["lat"], B["lon"])
        prA == Get(A, "priority", 1)
        prB == Get(B, "priority", 1)
        sA == Get(A, "speed", 0)
        sB == Get(B, "speed", 0)
    IN  IF dist <= CriticalDistance * 1000000
        THEN [action |-> "STOP_BOTH", reason |-> "Critical proximity"]
        ELSE IF prA > prB
        THEN [action |-> "STOP_ONE", stop_train |-> B["id"],
              let_pass |-> A["id"], reason |-> "Train A higher priority"]
        ELSE IF prB > prA
        THEN [action |-> "STOP_ONE", stop_train |-> A["id"],
              let_pass |-> B["id"], reason |-> "Train B higher priority"]
        ELSE IF sA > sB
        THEN [action |-> "STOP_ONE", stop_train |-> B["id"],
              let_pass |-> A["id"], reason |-> "Train A faster"]
        ELSE IF sB > sA
        THEN [action |-> "STOP_ONE", stop_train |-> A["id"],
              let_pass |-> B["id"], reason |-> "Train B faster"]
        ELSE [action |-> "STOP_BOTH", reason |-> "Same speed & priority"]

\* decide_collision_action reading the position of the first train before
\* it checks the length of the list.
decide_collision_action_reads_first(trains) ==
    IF Len(trains) = 0
    THEN [raised |-> "IndexError"]
    ELSE IF ~({"lat", "lon"} \subseteq DOMAIN trains[1])
    THEN [raised |-> "KeyError"]
    ELSE IF Len(trains) < 2
    THEN [action |-> "NO_ACTION"]
    ELSE decide_pair(trains[1], trains[2])

\* decide_collision_action with the proximity hard-stop applied to every
\* pair of the list, as the sibling server scans them.
decide_collision_action_all_pairs(trains) ==
    IF Len(trains) < 2
    THEN [action |-> "NO_ACTION"]
    ELSE IF AnyPairClose(trains, 1, 2)
    THEN [action |-> "STOP_BOTH", reason |-> "Critical proximity"]
    ELSE decide_pair(trains[1], trains[2])

decide_collision_action(trains) ==
    IF Len(trains) < 2
    THEN [action |-> "NO_ACTION"]
    ELSE decide_pair(trains[1], trains[2])

----------------------------------------------------------------------------
(* Requests to the arbitration *)

\* Longest list of trains in a request.
MaxDecideTrains == 3

\* Positions in units of 1e-5 degree (1.112 m): 31 units are 34.5 m, 32
\* units 35.6 m, and <<540, 720>> is 1000.7 m from the origin.  <<>> is a
\* train without lat and lon.
DecidePositions == {<<>>, <<0, 0>>, <<31, 0>>, <<0, 32>>, <<540, 720>>}

\* <<>> is an absent field.
DecidePriorities == {<<>>, <<1>>, <<2>>}

DecideSpeeds == {<<>>, <<0>>, <<80>>}

TrainIds == <<"T1", "T2", "T3", "T4", "T5">>

DecideTrain(id, pos, pr, sp) ==
    [id |-> id]
      @@ (IF pos = <<>> THEN <<>> ELSE [lat |-> pos[1], lon |-> pos[2]])
      @@ (IF pr = <<>> THEN <<>> ELSE [priority |-> pr[1]])
      @@ (IF sp = <<>> THEN <<>> ELSE [speed |-> sp[1]])

\* The trains a request may carry at index i: any combination for the two
\* the rule reads, and for the others a train at the origin or 1000.7 m
\* from it, with or without a top priority and speed.
DecideTrainsAt(i) ==
    IF i <= 2
    THEN {DecideTrain(TrainIds[i], pos, pr, sp) :
             pos \in DecidePositions, pr \in DecidePriorities, sp \in DecideSpeeds}
    ELSE {DecideTrain(TrainIds[i], pos, pr, pr) :
             pos \in {<<0, 0>>, <<540, 720>>}, pr \in {<<>>, <<300>>}}

RECURSIVE DecideLists(_)
DecideLists(n) ==
    IF n = 0 THEN {<<>>}
    ELSE {Append(l, t) : l \in DecideLists(n - 1), t \in DecideTrainsAt(n)}

DecideRequests == UNION {DecideLists(n) : n \in 0..MaxDecideTrains}

\* A request is pending until the arbitration has answered it.
Pending == [action |-> "PENDING"]

InitDecide ==
    /\ decideTrains \in DecideRequests
    /\ decision = Pending
    /\ snapshots = <<>> /\ results = <<>> /\ calls = 0 /\ hist = <<>>
    /\ stationArgs = <<>> /\ stationResult = <<>>
    /\ IdleTrack /\ IdleSeg /\ IdleP140 /\ IdleEndpoint

\* One call decide_collision_action(trains).
DecideCollision ==
    /\ decision = Pending
    /\ decision' = decide_collision_action(decideTrains)
    /\ UNCHANGED <<decideTrains, trainVars, stationVars, trackVars, segVars, p140Vars, endpointVars>>

NextDecide == DecideCollision

SpecDecide == InitDecide /\ [][NextDecide]_vars

----------------------------------------------------------------------------
(* Claims about the arbitration, checked under SpecDecide *)

Decided == decision # Pending

\* The request holds two trains that both carry a position.
HasPair ==
    /\ Len(decideTrains) >= 2
    /\ {"lat", "lon"} \subseteq DOMAIN decideTrains[1]
    /\ {"lat", "lon"} \subseteq DOMAIN decideTrains[2]

\* Separation of the first two trains, in micrometres.
Separation ==
    haversine(decideTrains[1]["lat"], decideTrains[1]["lon"],
              decideTrains[2]["lat"], decideTrains[2]["lon"])

CriticallyClose == HasPair /\ Separation <= 35 * 1000000

FarApart == HasPair /\ Separation > 35 * 1000000

\* Priority and speed as the rule counts them: 1 and 0 when missing.
PriorityOf(t) == IF "priority" \in DOMAIN t THEN t["priority"] ELSE 1

SpeedOf(t) == IF "speed" \in DOMAIN t THEN t["speed"] ELSE 0

Tied ==
    /\ PriorityOf(decideTrains[1]) = PriorityOf(decideTrains[2])
    /\ SpeedOf(decideTrains[1]) = SpeedOf(decideTrains[2])

\* <<priority, speed>> of t is lexicographically greater than that of u.
LexGreater(t, u) ==
    \/ PriorityOf(t) > PriorityOf(u)
    \/ PriorityOf(t) = PriorityOf(u) /\ SpeedOf(t) > SpeedOf(u)

\* C1: when the first two trains are 35 m apart or less, the result is
\* exactly STOP_BOTH with reason "Critical proximity" (no stop_train, no
\* let_pass), whatever the priorities and speeds are.
C1_CriticalProximity ==
    (Decided /\ CriticallyClose)
        => decision = [action |-> "STOP_BOTH", reason |-> "Critical proximity"]

\* C1 witness: two trains 34.5 m apart, the second with the higher priority
\* and the first with the higher speed, have been stopped.
C1_Witness ==
    /\ Decided /\ CriticallyClose
    /\ Separation > 34 * 1000000
    /\ PriorityOf(decideTrains[1]) < PriorityOf(decideTrains[2])
    /\ SpeedOf(decideTrains[1]) > SpeedOf(decideTrains[2])
    /\ decision["action"] = "STOP_BOTH"

\* C2: when the first two trains are more than 35 m apart and not tied on
\* both priority and speed, the result is STOP_ONE, let_pass is the train
\* with the lexicographically greater <<priority, speed>> (a missing
\* priority counting as 1, a missing speed as 0) and stop_train the other.
C2_PriorityThenSpeed ==
    (Decided /\ FarApart /\ ~Tied)
        => LET A == decideTrains[1]
               B == decideTrains[2]
               winner == IF LexGreater(A, B) THEN A ELSE B
               loser == IF LexGreater(A, B) THEN B ELSE A
           IN  /\ DOMAIN decision = {"action", "stop_train", "let_pass", "reason"}
               /\ decision["action"] = "STOP_ONE"
               /\ decision["let_pass"] = winner["id"]
               /\ decision["stop_train"] = loser["id"]

\* C2 witness: far apart, the first train has the higher priority and the
\* lower speed, and it is the one let pass.
C2_Witness ==
    /\ Decided /\ FarApart
    /\ PriorityOf(decideTrains[1]) > PriorityOf(decideTrains[2])
    /\ SpeedOf(decideTrains[1]) < SpeedOf(decideTrains[2])
    /\ decision["action"] = "STOP_ONE"
    /\ decision["let_pass"] = decideTrains[1]["id"]

\* C3: for two trains more than 35 m apart the action is STOP_BOTH exactly
\* when priorities and speeds are both equal (reason "Same speed &
\* priority") and STOP_ONE otherwise; for any two positioned trains the
\* action is one of STOP_BOTH and STOP_ONE.
C3_StopBothIffTied ==
    (Decided /\ HasPair)
        => /\ "action" \in DOMAIN decision
           /\ decision["action"] \in {"STOP_BOTH", "STOP_ONE"}
           /\ FarApart =>
                 /\ decision["action"] = "STOP_BOTH" <=> Tied
                 /\ decision["action"] = "STOP_ONE" <=> ~Tied
                 /\ Tied => decision["reason"] = "Same speed & priority"

\* C3 witness: far apart, tied (one priority missing, the other 1; one speed
\* missing, the other 0), both stopped for the tie.
C3_Witness ==
    /\ Decided /\ FarApart /\ Tied
    /\ "priority" \notin DOMAIN decideTrains[1]
    /\ "priority" \in DOMAIN decideTrains[2]
    /\ "speed" \in DOMAIN decideTrains[1]
    /\ "speed" \notin DOMAIN decideTrains[2]
    /\ decision = [action |-> "STOP_BOTH", reason |-> "Same speed & priority"]

\* C4: a list of zero or one train gives exactly NO_ACTION and no error,
\* even when the single train carries nothing but its id.
C4_FewerThanTwo ==
    (Decided /\ Len(decideTrains) < 2) => decision = [action |-> "NO_ACTION"]

\* C4 witness: a single train with only an id has been answered NO_ACTION.
C4_Witness ==
    /\ Decided
    /\ Len(decideTrains) = 1
    /\ DOMAIN decideTrains[1] = {"id"}
    /\ decision["action"] = "NO_ACTION"

\* C5: the result for a list of two or more trains is the result for its
\* first two trains alone, whatever the trains after them are.
C5_FirstTwoOnly ==
    (Decided /\ Len(decideTrains) >= 2)
        => decision = decide_collision_action(SubSeq(decideTrains, 1, 2))

\* C5 witness: the first two trains are far apart, a third train stands
\* where the first one is and outranks both, and one train is stopped.
C5_Witness ==
    /\ Decided /\ FarApart
    /\ Len(decideTrains) >= 3
    /\ {"lat", "lon"} \subseteq DOMAIN decideTrains[3]
    /\ decideTrains[3]["lat"] = decideTrains[1]["lat"]
    /\ decideTrains[3]["lon"] = decideTrains[1]["lon"]
    /\ PriorityOf(decideTrains[3]) > PriorityOf(decideTrains[1])
    /\ PriorityOf(decideTrains[3]) > PriorityOf(decideTrains[2])
    /\ decision["action"] = "STOP_ONE"

----------------------------------------------------------------------------
(* Train kinematics: computeTrainParameters.py, compute_train_parameters *)

\* A snapshot t is a dict; speeds are in km/h, progress in thousandths,
\* startTime and now in the caller's time unit, lat and lon in 1e-5 degree.

speed_kmh_of(t) == Get(t, "speed", 0)

progress_of(t) == Get(t, "progress", 0)

priority_of_zero(t) == Get(t, "priority", 0)

priority_of(t) == Get(t, "priority", 1)

status_of(t) == Get(t, "status", "RUNNING")

\* speed_kmh / 3.6, in thousandths of a m/s.
speed_mps_of(t) == FDiv(speed_kmh_of(t) * 10, 36)

\* speed_mps ** 2 in thousandths, from hundredths of a m/s.  Both uses
\* divide the square and cap the quotient at 1.0, which it reaches at 40 m/s
\* (p4) and at 56.6 m/s (p7); from 60 m/s on the square of 60 m/s stands for
\* it, which keeps the product within 32 bits.
speed_mps_squared(t) ==
    LET v == Abs(speed_mps_of(t)) \div 10
    IN  IF v >= 6000 THEN 3600 * 1000 ELSE (v * v) \div 10

\* Lines 41-42: the finite difference with the carried speed.
accel_of(t) == speed_kmh_of(t) - Get(t, "prev_speed", speed_kmh_of(t))

\* Lines 49-50.
jerk_of(t) == accel_of(t) - Get(t, "prev_accel", accel_of(t))

\* Lines 87-91: elapsed, in thousandths.
elapsed_of(t) ==
    LET start_time == Get(t, "startTime", 0)
    IN  IF start_time > 0
        THEN FDiv(Get(t, "now", start_time) - start_time, 1000)
        ELSE 0

\* status_map.get(status, 0.2)
status_risk(status) ==
    CASE status = "RUNNING" -> 100
      [] status = "STOPPED" -> 500
      [] status = "EMERGENCY" -> 1000
      [] status = "DELAYED" -> 600
      [] OTHER -> 200

\* The 20 indicators of one snapshot, in thousandths.
train_indicators(t) ==
    LET speed_kmh == speed_kmh_of(t)
        priority == priority_of(t)
        speed_mps == speed_mps_of(t)
        prev_speed == Get(t, "prev_speed", speed_kmh)
        p3 == Clamp(FDiv(jerk_of(t), 20), -1000, 1000)
        p5 == Max(0, Min(1000, progress_of(t)))
        p1 == Min(1000, FDiv(speed_kmh, 200))
        p8 == Min(1000, FDiv(priority, 3))
        \* 2 * decel + 1e-9 is 1.6 at this resolution
        stopping_distance == FDiv(speed_mps_squared(t), 1600)
    IN  [p1 |-> p1,
         p2 |-> Clamp(FDiv(accel_of(t), 50), -1000, 1000),
         p3 |-> p3,
         p4 |-> Min(1000, FDiv(speed_mps_squared(t), 1600 * 1000)),
         p5 |-> p5,
         p6 |-> 1000 - p5,
         p7 |-> Min(1000, FDiv(stopping_distance, 2000 * 1000)),
         p8 |-> p8,
         p9 |-> Min(1000, FDiv(elapsed_of(t), 3600 * 1000)),
         p10 |-> status_risk(status_of(t)),
         p11 |-> 0,
         p12 |-> FDiv(Abs(speed_kmh - prev_speed), 200),
         p13 |-> Min(1000, FDiv(speed_kmh * 1000, Max(1000, priority * 100 * 1000))),
         p14 |-> 1000 - Min(1000, Abs(p3)),
         p15 |-> Min(1000, FDiv(speed_mps, 50 * 1000)),
         p16 |-> p5,
         p17 |-> IF speed_kmh < 0 THEN Min(1000, FDiv(Abs(speed_kmh), 50)) ELSE 0,
         p18 |-> 0,
         p19 |-> Min(1000, ((Abs(Get(t, "lat", 0)) + Abs(Get(t, "lon", 0))) % 100000) \div 100),
         p20 |-> (p1 + p5 + p8) \div 3]

\* carry_forward that saves the speed but not the acceleration.
carry_forward_speed_only(t) ==
    [prev_speed |-> speed_kmh_of(t)] @@ t

\* Lines 169-171: t["prev_speed"] = speed_kmh; t["prev_accel"] = accel.
carry_forward(t) ==
    [prev_speed |-> speed_kmh_of(t), prev_accel |-> accel_of(t)] @@ t

\* The loop of lines 21-171 from index i on: res is the mapping built so
\* far, done the snapshots already updated.  A later snapshot with the same
\* id replaces the entry of an earlier one.
RECURSIVE train_loop(_, _, _, _)
train_loop(ts, i, res, done) ==
    IF i > Len(ts)
    THEN [results |-> res, trains |-> done]
    ELSE train_loop(ts, i + 1,
                    (ts[i]["id"] :> train_indicators(ts[i])) @@ res,
                    Append(done, carry_forward(ts[i])))

\* compute_train_parameters(trains): the mapping returned and the list as
\* the call leaves it.
compute_train_parameters(ts) == train_loop(ts, 1, <<>>, <<>>)

----------------------------------------------------------------------------
(* Requests to the kinematics *)

\* Longest list of snapshots in a request.
MaxTrainList == 2

\* Calls of compute_train_parameters on one list.
MaxCalls == 3

\* Speeds a snapshot may arrive with; <<>> is no speed field.
TrainSpeeds == {<<>>, <<-50>>, <<0>>, <<100>>, <<300>>, <<100000>>}

\* What the rest of a snapshot may be: progress, priority, status,
\* <<lat, lon>>, <<startTime, now>>, each <<>> when absent (now alone may
\* be absent too).  The second and third are the snapshots of
\* test_basic_functionality.
TrainProfiles ==
    {<< <<>>, <<>>, <<>>, <<>>, <<>> >>,
     << <<0>>, <<1>>, <<"RUNNING">>, <<>>, <<>> >>,
     << <<500>>, <<1>>, <<"RUNNING">>, <<2861390, 7720900>>, <<1000000, 1003600>> >>,
     << <<300>>, <<2>>, <<"STOPPED">>, <<2866920, 7745380>>, <<1000000, 1007200>> >>,
     << <<1500>>, <<5>>, <<"EMERGENCY">>, <<>>, <<1000000, 4600000>> >>,
     << <<-200>>, <<3>>, <<"DELAYED">>, <<0, -7745380>>, <<1000000, 9000000>> >>,
     << <<1000>>, <<1>>, <<"MAINTENANCE">>, <<>>, <<0, 5000000>> >>,
     << <<0>>, <<2>>, <<"RUNNING">>, <<>>, <<1000000>> >>,
     << <<250>>, <<1>>, <<"RUNNING">>, <<>>, <<1000000, 2800000>> >>,
     << <<750>>, <<-1>>, <<"STOPPED">>, <<>>, <<1000000, 400000>> >>}

Snapshot(id, sp, pf) ==
    [id |-> id]
      @@ (IF sp = <<>> THEN <<>> ELSE [speed |-> sp[1]])
      @@ (IF pf[1] = <<>> THEN <<>> ELSE [progress |-> pf[1][1]])
      @@ (IF pf[2] = <<>> THEN <<>> ELSE [priority |-> pf[2][1]])
      @@ (IF pf[3] = <<>> THEN <<>> ELSE [status |-> pf[3][1]])
      @@ (IF pf[4] = <<>> THEN <<>> ELSE [lat |-> pf[4][1], lon |-> pf[4][2]])
      @@ (IF pf[5] = <<>> THEN <<>> ELSE [startTime |-> pf[5][1]])
      @@ (IF Len(pf[5]) < 2 THEN <<>> ELSE [now |-> pf[5][2]])

\* The snapshots a request may carry at index i: any for the first, and for
\* the others one that carries only its id or a stopped train at 80 km/h.
SnapshotsAt(i) ==
    IF i = 1
    THEN {Snapshot(TrainIds[i], sp, pf) : sp \in TrainSpeeds, pf \in TrainProfiles}
    ELSE {[id |-> TrainIds[i]],
          [id |-> TrainIds[i], speed |-> 80, status |-> "STOPPED"]}

RECURSIVE TrainLists(_)
TrainLists(n) ==
    IF n = 0 THEN {<<>>}
    ELSE {Append(l, t) : l \in TrainLists(n - 1), t \in SnapshotsAt(n)}

TrainRequests == UNION {TrainLists(n) : n \in 0..MaxTrainList}

\* The speeds the caller may write into snapshot i between two calls.
NextSpeeds(i) == IF i = 1 THEN {-50, 0, 90, 100, 100000} ELSE {0}

InitTrain ==
    /\ snapshots \in TrainRequests
    /\ results = <<>>
    /\ calls = 0
    /\ hist = [i \in 1..Len(snapshots) |-> <<>>]
    /\ decideTrains = <<>> /\ decision = Pending
    /\ stationArgs = <<>> /\ stationResult = <<>>
    /\ IdleTrack /\ IdleSeg /\ IdleP140 /\ IdleEndpoint

\* One call compute_train_parameters(trains); the snapshots are the
\* caller's objects, so the caller sees them updated.
ComputeTrainParameters ==
    /\ calls < MaxCalls
    /\ LET out == compute_train_parameters(snapshots)
       IN  /\ results' = out.results
           /\ snapshots' = out.trains
    /\ calls' = calls + 1
    /\ hist' = [i \in 1..Len(snapshots) |-> Append(hist[i], speed_kmh_of(snapshots[i]))]
    /\ UNCHANGED <<decideVars, stationVars, trackVars, segVars, p140Vars, endpointVars>>

\* Between two calls the caller writes the new speed of a train into its
\* snapshot and changes nothing else.
SetSpeed ==
    /\ calls >= 1
    /\ calls < MaxCalls
    /\ \E i \in 1..Len(snapshots) : \E s \in NextSpeeds(i) :
           snapshots' = [snapshots EXCEPT ![i] = [speed |-> s] @@ @]
    /\ UNCHANGED <<results, calls, hist, decideVars, stationVars, trackVars, segVars, p140Vars, endpointVars>>

NextTrain == ComputeTrainParameters \/ SetSpeed

SpecTrain == InitTrain /\ [][NextTrain]_vars

----------------------------------------------------------------------------
(* Claims about the kinematics, checked under SpecTrain *)

Computed == calls >= 1

IndicatorNames ==
    {"p1", "p2", "p3", "p4", "p5", "p6", "p7", "p8", "p9", "p10",
     "p11", "p12", "p13", "p14", "p15", "p16", "p17", "p18", "p19", "p20"}

\* C6: every indicator returned is within its documented range: p2 and p3
\* in [-1, 1], every other one in [0, 1], whatever the snapshot holds.
C6_IndicatorRanges ==
    Computed =>
        \A tid \in DOMAIN results : \A p \in IndicatorNames :
            /\ results[tid][p] <= 1000
            /\ results[tid][p] >= (IF p \in {"p2", "p3"} THEN -1000 ELSE 0)

\* The speeds snapshot i carried at its calls, oldest first.
SpeedAt(i, k) == hist[i][k]

\* Acceleration of call k of snapshot i as the claim states it: the speed
\* difference to the call before, 0 on the first call.
AccelAt(i, k) == IF k >= 2 THEN SpeedAt(i, k) - SpeedAt(i, k - 1) ELSE 0

\* C7: after call k a snapshot holds prev_speed = s_k and prev_accel = a_k =
\* s_k - s_(k-1) (0 on the first call), and the call reported
\* p2 = clamp(a_k / 50, -1, 1) and p3 = clamp((a_k - a_(k-1)) / 20, -1, 1).
C7_CarryForward ==
    Computed =>
        \A i \in 1..Len(snapshots) :
            LET k == Len(hist[i])
                t == snapshots[i]
                a == AccelAt(i, k)
                jerk == AccelAt(i, k) - AccelAt(i, k - 1)
            IN  /\ k = calls
                /\ {"prev_speed", "prev_accel"} \subseteq DOMAIN t
                /\ t["prev_speed"] = SpeedAt(i, k)
                /\ t["prev_accel"] = a
                /\ results[t["id"]]["p2"]
                     = (IF a >= 50 THEN 1000 ELSE IF a <= -50 THEN -1000 ELSE a * 20)
                /\ results[t["id"]]["p3"]
                     = (IF jerk >= 20 THEN 1000 ELSE IF jerk <= -20 THEN -1000
                        ELSE jerk * 50)

\* C7 witness: three calls at 100, 90 and 90 km/h: the last reports
\* acceleration 0 and jerk +10, so p2 = 0 and p3 = 0.5.
C7_Witness ==
    /\ calls = 3
    /\ Len(snapshots) >= 1
    /\ hist[1] = <<100, 90, 90>>
    /\ snapshots[1]["prev_speed"] = 90
    /\ snapshots[1]["prev_accel"] = 0
    /\ results["T1"]["p2"] = 0
    /\ results["T1"]["p3"] = 500

\* What the claim gives for speed 0, progress 0, priority 1, status RUNNING.
DefaultIndicators ==
    [p1 |-> 0, p2 |-> 0, p3 |-> 0, p4 |-> 0, p5 |-> 0, p6 |-> 1000, p7 |-> 0,
     p8 |-> 333, p9 |-> 0, p10 |-> 100, p11 |-> 0, p12 |-> 0, p13 |-> 0,
     p14 |-> 1000, p15 |-> 0, p16 |-> 0, p17 |-> 0, p18 |-> 0, p19 |-> 0,
     p20 |-> 111]

\* Snapshot i came with nothing but its id (the calls added the carried
\* fields) and the caller never gave it a speed.
OnlyId(i) == DOMAIN snapshots[i] = {"id", "prev_speed", "prev_accel"}

\* Snapshot i came with the default values written out, and nothing else.
WrittenDefaults(i) ==
    /\ DOMAIN snapshots[i] = {"id", "speed", "progress", "priority", "status",
                              "prev_speed", "prev_accel"}
    /\ snapshots[i]["speed"] = 0
    /\ snapshots[i]["progress"] = 0
    /\ snapshots[i]["priority"] = 1
    /\ snapshots[i]["status"] = "RUNNING"
    /\ \A k \in 1..Len(hist[i]) : hist[i][k] = 0

\* C8: a snapshot with only an id gets the indicators of a snapshot with
\* speed 0, progress 0, priority 1 and status RUNNING (p1 = 0, p5 = 0,
\* p8 = 1/3, p10 = 0.1), and an empty list gets the empty mapping.
C8_MissingFieldDefaults ==
    Computed =>
        /\ Len(snapshots) = 0 => results = <<>>
        /\ DOMAIN results = {snapshots[i]["id"] : i \in 1..Len(snapshots)}
        /\ \A i \in 1..Len(snapshots) :
               (OnlyId(i) \/ WrittenDefaults(i))
                   => results[snapshots[i]["id"]] = DefaultIndicators

\* C8 witness: a list of one snapshot that carried only its id has been
\* computed, with p8 = 1/3 and p10 = 0.1.
C8_Witness ==
    /\ Computed
    /\ Len(snapshots) = 1
    /\ OnlyId(1)
    /\ results["T1"]["p8"] = 333
    /\ results["T1"]["p10"] = 100

\* C9: with a start time above 0, p9 = min(1.0, (now - startTime) / 3600),
\* so a difference of 3600 gives 1.0; otherwise p9 = 0.
C9_ElapsedOver3600 ==
    Computed =>
        \A i \in 1..Len(snapshots) :
            LET t == snapshots[i]
                start_time == IF "startTime" \in DOMAIN t THEN t["startTime"] ELSE 0
                now == IF "now" \in DOMAIN t THEN t["now"] ELSE start_time
            IN  results[t["id"]]["p9"]
                  = (IF start_time > 0
                     THEN Min(1000, FDiv(now - start_time, 3600))
                     ELSE 0)

----------------------------------------------------------------------------
(* Station capacity: station_params.py *)

\* Lengths are in metres, times in seconds, speeds in km/h and rates in
\* trains per hour, as whole numbers; adhesion_mu, reaction_time_s,
\* cv_interarrival and margin_factor are in thousandths.  Derived values are
\* in thousandths, max_simultaneous_trains and min_clearance_time_s whole.

\* 9.81, in hundredths.
G == 981

\* float('inf')
Inf == 2147483647

\* What a helper that divides hands back: its value, or the
\* ZeroDivisionError of a zero divisor.
Ok(v) == [raised |-> FALSE, value |-> v]

ZeroDivisionError == [raised |-> TRUE, value |-> 0]

\* a * k / b as Python's / gives it.
TrueDiv(a, k, b) == IF b = 0 THEN ZeroDivisionError ELSE Ok(MulDiv(a, k, b))

\* x * k for a count k >= 1; inf times a positive count is inf.
Times(x, k) == IF x = Inf THEN Inf ELSE x * k

\* v_kmh / 3.6, in thousandths of a m/s.
kmh_to_mps(v_kmh) == FDiv(v_kmh * 10, 36)

\* v * v is in 1e-6, 2.0 * mu * G in 1e-5.
braking_distance(v_kmh, mu) ==
    LET v == kmh_to_mps(v_kmh)
        m == IF mu <= 0 THEN 250 ELSE mu
    IN  TrueDiv(v * v, 100, 2 * m * G)

reaction_distance(v_kmh, reaction_time_s) ==
    (kmh_to_mps(v_kmh) * reaction_time_s) \div 1000

platform_utilization(arrival_rate_per_hr, avg_dwell_s) ==
    FDiv(arrival_rate_per_hr * avg_dwell_s, 3600)

max_simultaneous_trains(station_length_m, avg_train_length_m) ==
    IF avg_train_length_m <= 0
    THEN Ok(0)
    ELSE TrueDiv(station_length_m, 1, avg_train_length_m)

\* capacity_per_platform with the guard denom < 0 for denom <= 0.
capacity_per_platform_negative_only(avg_dwell_s, buffer_s) ==
    LET denom == avg_dwell_s + buffer_s
    IN  IF denom < 0 THEN Ok(Inf) ELSE TrueDiv(3600, 1000, denom)

capacity_per_platform(avg_dwell_s, buffer_s) ==
    LET denom == avg_dwell_s + buffer_s
    IN  IF denom <= 0 THEN Ok(Inf) ELSE TrueDiv(3600, 1000, denom)

\* station_capacity multiplying by num_platforms itself, not max(1, .).
station_capacity_raw_count(num_platforms, avg_dwell_s, buffer_s) ==
    LET c == capacity_per_platform(avg_dwell_s, buffer_s)
    IN  IF c.raised THEN c
        ELSE Ok(IF c.value = Inf THEN Inf ELSE c.value * num_platforms)

station_capacity(num_platforms, avg_dwell_s, buffer_s) ==
    LET c == capacity_per_platform(avg_dwell_s, buffer_s)
    IN  IF c.raised THEN c ELSE Ok(Times(c.value, Max(1, num_platforms)))

risk_index_from_utilization(overall_utilization, cv) ==
    (((overall_utilization * overall_utilization) \div 1000)
        * (1000 + (cv * cv) \div 1000)) \div 1000

\* compute_station_parameters(**a): the dict returned, or the exception a
\* helper raised.
compute_station_parameters(a) ==
    LET station_length_m == a["station_length_m"]
        platform_length_m == a["platform_length_m"]
        num_platforms == a["num_platforms"]
        avg_train_length_m == a["avg_train_length_m"]
        arrival_rate_per_hr == a["arrival_rate_per_hr"]
        avg_dwell_s == a["avg_dwell_s"]
        avg_approach_speed_kmh == a["avg_approach_speed_kmh"]
        adhesion_mu == Get(a, "adhesion_mu", 350)
        reaction_time_s == Get(a, "reaction_time_s", 1500)
        safety_buffer_s == Get(a, "safety_buffer_s", 30)
        cv_interarrival == Get(a, "cv_interarrival", 1000)
        margin_factor == Get(a, "margin_factor", 1000)
        max_trains == max_simultaneous_trains(station_length_m, avg_train_length_m)
        util_single == platform_utilization(arrival_rate_per_hr, avg_dwell_s)
        overall_util == util_single \div Max(1, num_platforms)
        brake_m == braking_distance(avg_approach_speed_kmh, adhesion_mu)
        react_m == reaction_distance(avg_approach_speed_kmh, reaction_time_s)
        cap == station_capacity(num_platforms, avg_dwell_s, safety_buffer_s)
    IN  IF max_trains.raised \/ brake_m.raised \/ cap.raised
        THEN [raised |-> "ZeroDivisionError"]
        ELSE [station_length_m |-> station_length_m,
              platform_length_m |-> platform_length_m,
              num_platforms |-> num_platforms,
              avg_train_length_m |-> avg_train_length_m,
              arrival_rate_per_hr |-> arrival_rate_per_hr,
              avg_dwell_s |-> avg_dwell_s,
              avg_approach_speed_kmh |-> avg_approach_speed_kmh,
              adhesion_mu |-> adhesion_mu,
              reaction_time_s |-> reaction_time_s,
              safety_buffer_s |-> safety_buffer_s,
              max_simultaneous_trains |-> max_trains.value,
              platform_utilization_single |-> util_single,
              platform_utilization_overall |-> overall_util,
              braking_distance_m |-> brake_m.value,
              reaction_distance_m |-> react_m,
              total_stopping_distance_m |->
                  ((brake_m.value + react_m) * margin_factor) \div 1000,
              station_capacity_trains_per_hr |-> cap.value,
              min_clearance_time_s |-> avg_dwell_s + safety_buffer_s,
              conflict_risk_index |->
                  risk_index_from_utilization(overall_util, cv_interarrival)]

----------------------------------------------------------------------------
(* Requests to the station capacity *)

\* Largest platform count in a request.
MaxPlatforms == 3

\* <<>> is an argument left to its default.
StationMus == {<<>>, <<-100>>, <<0>>, <<350>>}

StationBuffers == {<<>>, <<-30>>, <<0>>, <<20>>}

StationMargins == {<<>>, <<1500>>}

StationArgs(sl, n, tl, rate, dwell, v, mu, buffer, margin) ==
    [station_length_m |-> sl, platform_length_m |-> 250, num_platforms |-> n,
     avg_train_length_m |-> tl, arrival_rate_per_hr |-> rate,
     avg_dwell_s |-> dwell, avg_approach_speed_kmh |-> v]
      @@ (IF mu = <<>> THEN <<>> ELSE [adhesion_mu |-> mu[1]])
      @@ (IF buffer = <<>> THEN <<>> ELSE [safety_buffer_s |-> buffer[1]])
      @@ (IF margin = <<>> THEN <<>> ELSE [margin_factor |-> margin[1]])

StationRequests ==
    {StationArgs(sl, n, tl, rate, dwell, v, mu, buffer, margin) :
        sl \in {0, 400}, n \in -1..MaxPlatforms, tl \in {-200, 0, 200},
        rate \in {4, 40}, dwell \in {-30, 0, 150}, v \in {0, 80},
        mu \in StationMus, buffer \in StationBuffers, margin \in StationMargins}

InitStation ==
    /\ stationArgs \in StationRequests
    /\ stationResult = <<>>
    /\ decideTrains = <<>> /\ decision = Pending
    /\ snapshots = <<>> /\ results = <<>> /\ calls = 0 /\ hist = <<>>
    /\ IdleTrack /\ IdleSeg /\ IdleP140 /\ IdleEndpoint

\* One call compute_station_parameters(**stationArgs).
ComputeStationParameters ==
    /\ stationResult = <<>>
    /\ stationResult' = compute_station_parameters(stationArgs)
    /\ UNCHANGED <<stationArgs, decideVars, trainVars, trackVars, segVars, p140Vars, endpointVars>>

NextStation == ComputeStationParameters

SpecStation == InitStation /\ [][NextStation]_vars

----------------------------------------------------------------------------
(* Claims about the station capacity, checked under SpecStation *)

Returned == stationResult # <<>>

StationResultKeys ==
    {"station_length_m", "platform_length_m", "num_platforms",
     "avg_train_length_m", "arrival_rate_per_hr", "avg_dwell_s",
     "avg_approach_speed_kmh", "adhesion_mu", "reaction_time_s",
     "safety_buffer_s", "max_simultaneous_trains",
     "platform_utilization_single", "platform_utilization_overall",
     "braking_distance_m", "reaction_distance_m", "total_stopping_distance_m",
     "station_capacity_trains_per_hr", "min_clearance_time_s",
     "conflict_risk_index"}

\* The buffer the call used: the argument, or its default of 30 s.
BufferUsed ==
    IF "safety_buffer_s" \in DOMAIN stationArgs
    THEN stationArgs["safety_buffer_s"] ELSE 30

\* The adhesion the call was given: the argument, or its default of 0.35.
MuGiven ==
    IF "adhesion_mu" \in DOMAIN stationArgs
    THEN stationArgs["adhesion_mu"] ELSE 350

\* C10: compute_station_parameters never raises and returns all its keys;
\* when avg_dwell_s + safety_buffer_s <= 0 both capacity_per_platform and
\* station_capacity_trains_per_hr are infinity for every num_platforms; with
\* adhesion_mu <= 0 the braking distance is a number (that of mu = 0.25),
\* and with avg_train_length_m <= 0 max_simultaneous_trains is 0.
C10_NoDivisionFault ==
    Returned =>
        /\ DOMAIN stationResult = StationResultKeys
        /\ stationArgs["avg_dwell_s"] + BufferUsed <= 0 =>
             /\ capacity_per_platform(stationArgs["avg_dwell_s"], BufferUsed)
                  = [raised |-> FALSE, value |-> Inf]
             /\ stationResult["station_capacity_trains_per_hr"] = Inf
        /\ stationArgs["avg_dwell_s"] + BufferUsed > 0 =>
             stationResult["station_capacity_trains_per_hr"] < Inf
        /\ MuGiven <= 0 =>
             LET v == kmh_to_mps(stationArgs["avg_approach_speed_kmh"])
             IN  stationResult["braking_distance_m"]
                   = MulDiv(v * v, 100, 2 * 250 * 981)
        /\ stationArgs["avg_train_length_m"] <= 0 =>
             stationResult["max_simultaneous_trains"] = 0

\* C10 witness: a station with dwell 0, buffer 0, adhesion 0, train length
\* 0 and three platforms, approached at 80 km/h, got infinite capacity.
C10_Witness ==
    /\ Returned
    /\ stationArgs["avg_dwell_s"] = 0
    /\ BufferUsed = 0
    /\ MuGiven = 0
    /\ stationArgs["avg_train_length_m"] = 0
    /\ stationArgs["num_platforms"] = 3
    /\ stationArgs["avg_approach_speed_kmh"] = 80
    /\ stationResult["station_capacity_trains_per_hr"] = Inf
    /\ stationResult["max_simultaneous_trains"] = 0

\* 3600 / (avg_dwell_s + safety_buffer_s) of the call, in thousandths;
\* infinity where the sum is not positive.
OnePlatformCapacity ==
    LET denom == stationArgs["avg_dwell_s"] + BufferUsed
    IN  IF denom <= 0 THEN Inf ELSE 3600000 \div denom

\* arrival_rate_per_hr * avg_dwell_s / 3600 of the call, in thousandths.
SingleUtilization ==
    (stationArgs["arrival_rate_per_hr"] * stationArgs["avg_dwell_s"] * 1000)
        \div 3600

\* C11: compute_station_parameters counts max(1, num_platforms) platforms.
\* With num_platforms <= 0 platform_utilization_overall equals
\* platform_utilization_single and station_capacity_trains_per_hr is the
\* capacity of one platform; with num_platforms >= 1 the overall
\* utilization is the single one divided by num_platforms and the capacity
\* is num_platforms times 3600 / (avg_dwell_s + safety_buffer_s).
C11_PlatformCountAtLeastOne ==
    Returned =>
        LET n == stationArgs["num_platforms"]
            single == stationResult["platform_utilization_single"]
            overall == stationResult["platform_utilization_overall"]
            cap == stationResult["station_capacity_trains_per_hr"]
        IN  /\ single = SingleUtilization
            /\ n <= 0 => overall = single /\ cap = OnePlatformCapacity
            /\ n >= 1 =>
                 /\ overall = single \div n
                 /\ cap = IF OnePlatformCapacity = Inf
                          THEN Inf ELSE n * OnePlatformCapacity

\* C11 witness: a station with no platform at all, 40 arrivals an hour
\* dwelling 150 s behind the default buffer, got the utilization and the
\* capacity of one platform.
C11_Witness ==
    /\ Returned
    /\ stationArgs["num_platforms"] = 0
    /\ stationArgs["arrival_rate_per_hr"] = 40
    /\ stationArgs["avg_dwell_s"] = 150
    /\ BufferUsed = 30
    /\ stationResult["platform_utilization_overall"] = 1666
    /\ stationResult["station_capacity_trains_per_hr"] = 20000

----------------------------------------------------------------------------
(* Track indicators: computeTrackParameters.py *)

\* Indicators and edge metrics are in thousandths, max_allowed_speed_kmh in
\* thousandths of a km/h, distances in thousandths of a km (metres), lat
\* and lon in units of 1e-5 degree.  A seed is the 8 bytes h[:8] of the
\* digest, most significant first, standing for the integer they spell.

\* A seed salted with the number of calls made so far in the process.
_seed_from_call_count(s) ==
    <<Len(edgeLog) + Len(trackLog), 125, 108, 118, 32, 80, 4, 190>>

\* _seed_from_str(s): the first 8 bytes of the SHA-256 digest of s, for the
\* edge identities the requests below can produce.
_seed_from_str(s) ==
    CASE s = "DEL-GZB"   -> <<97, 125, 108, 118, 32, 80, 4, 190>>
      [] s = "GZB-AGC"   -> <<132, 33, 192, 80, 208, 106, 220, 181>>
      [] s = "CNB-BSB"   -> <<199, 215, 168, 207, 180, 77, 45, 52>>
      [] s = "BSB-XXX"   -> <<177, 3, 222, 103, 67, 120, 106, 214>>
      [] s = "DEL-None"  -> <<4, 162, 135, 94, 186, 171, 77, 4>>
      [] s = "None-None" -> <<112, 76, 4, 221, 230, 11, 36, 145>>

\* The integer spelt by the n leading bytes of a seed, modulo m.
RECURSIVE LeadingBytesMod(_, _, _)
LeadingBytesMod(seed, n, m) ==
    IF n = 0 THEN 0
    ELSE (LeadingBytesMod(seed, n - 1, m) * 256 + seed[n]) % m

\* The integer spelt by the n leading bits of a seed, modulo m: whole
\* bytes first, then the leading bits of the byte that follows.
LeadingBitsMod(seed, n, m) ==
    LET whole == n \div 8
        rest == n % 8
    IN  IF rest = 0 THEN LeadingBytesMod(seed, whole, m)
        ELSE (LeadingBytesMod(seed, whole, m) * (2 ^ rest)
                + seed[whole + 1] \div (2 ^ (8 - rest))) % m

\* (seed >> k) % m
ShiftMod(seed, k, m) == LeadingBitsMod(seed, 64 - k, m)

\* (seed_int % 1000003) / 1000003.0
_rand_from_seed_int(seed) == FDiv(ShiftMod(seed, 0, 1000003), 1000003)

\* _clamp with lo and hi left at nothing but the floor of 0.0.
_clamp_floor_only(v) == Max(0, v)

\* _clamp(v) with lo = 0.0 and hi = 1.0, as every call has it.
_clamp(v) == Clamp(v, 0, 1000)

\* v is in thousandths of a km/h, max_kmh is 200.0.
_normalize_speed_kmh(v) == _clamp(v \div 200)

compute_edge_metrics(edge_id, distance_km) ==
    LET seed == _seed_from_str(edge_id)
        r == _rand_from_seed_int(seed)
        track_condition ==
            _clamp((2 * r) \div 10 + 3 * ShiftMod(seed, 7, 100)
                      + distance_km \div 100)
        curve_severity == _clamp(r \div 10 + 6 * ShiftMod(seed, 13, 100))
        gradient_index == _clamp(r \div 20 + 4 * ShiftMod(seed, 19, 100))
        track_age == _clamp(2 * ShiftMod(seed, 23, 100) + (3 * r) \div 10)
        switch_count_norm == _clamp(200 * ShiftMod(seed, 29, 5))
        base_max_speed ==
            200000 - curve_severity * 80 - gradient_index * 40
    IN  [edge_id |-> edge_id,
         distance_km |-> distance_km,
         track_condition |-> track_condition,
         curve_severity |-> curve_severity,
         gradient_index |-> gradient_index,
         track_age |-> track_age,
         switch_count_norm |-> switch_count_norm,
         max_allowed_speed_kmh |->
             Max(40000, base_max_speed - track_condition * 40),
         drainage_risk |->
             _clamp(3 * ShiftMod(seed, 17, 100) + (4 * r) \div 10),
         ballast_condition |->
             _clamp((25 * ShiftMod(seed, 11, 100)) \div 10 + r \div 2),
         embankment_susceptibility |->
             _clamp((2 * r) \div 10 + 6 * ShiftMod(seed, 5, 100)),
         electrification_health |->
             _clamp((2 * r) \div 10 + 5 * ShiftMod(seed, 3, 100)),
         switch_condition |->
             _clamp((2 * r) \div 10 + 6 * ShiftMod(seed, 2, 100))]

\* The stations argument: a list of station dicts, or a mapping from
\* station id to station dict (what the servers hold).
StationList(items) == [list |-> items]

StationMapping(items) == [mapping |-> items]

\* e.get("source"), e.get("target"); None is written "None", as the
\* f-string of the edge identity spells it.
edge_source(e) == Get(e, "source", "None")

edge_target(e) == Get(e, "target", "None")

\* f"{src}-{tgt}"
edge_id_of(src, tgt) == src \o "-" \o tgt

\* set([s["id"] for s in stations[:5]])
big_station_ids_of(station_list) ==
    {station_list[i]["id"] : i \in 1..Min(5, Len(station_list))}

\* next((x for x in stations if x["id"] == name), None); <<>> is None.
RECURSIVE station_from(_, _, _)
station_from(station_list, name, i) ==
    IF i > Len(station_list) THEN <<>>
    ELSE IF station_list[i]["id"] = name THEN station_list[i]
    ELSE station_from(station_list, name, i + 1)

\* math.hypot of two differences in 1e-5 degree, in thousandths of a
\* degree.
hypot(dlat, dlon) ==
    LET a == Abs(dlat) \div 100
        b == Abs(dlon) \div 100
    IN  Sqrt(a * a + b * b)

\* The distance of an edge (lines 137-147): the planar estimate when both
\* ends are found and carry lat; default_segment_km otherwise, and also
\* when reading lon raises inside the try.
edge_distance_km(station_list, src, tgt, default_segment_km) ==
    LET s == station_from(station_list, src, 1)
        t == station_from(station_list, tgt, 1)
    IN  IF s # <<>> /\ t # <<>> /\ "lat" \in DOMAIN s /\ "lat" \in DOMAIN t
        THEN IF "lon" \in DOMAIN s /\ "lon" \in DOMAIN t
             THEN Max(100, hypot(s["lat"] - t["lat"], s["lon"] - t["lon"])
                              * 111)
             ELSE default_segment_km
        ELSE default_segment_km

\* The addend of sum_signal_gap (lines 166-169).
signal_gap(src, tgt, big, rand) ==
    IF src \in big \/ tgt \in big
    THEN (2 * rand) \div 10
    ELSE (5 * rand) \div 10

\* The addend of total_utilization_proxy (line 175).
utilization_proxy(src, tgt, big) ==
    IF src \in big /\ tgt \in big
    THEN 2000 ELSE 1000

\* What one pass of the loop over the edges (lines 131-182) adds to each
\* accumulator.
edge_terms(station_list, big, e, default_km) ==
    LET src == edge_source(e)
        tgt == edge_target(e)
        edge_id == edge_id_of(src, tgt)
        distance_km == edge_distance_km(station_list, src, tgt, default_km)
        em == compute_edge_metrics(edge_id, distance_km)
        seed == _seed_from_str(edge_id)
        rand == _rand_from_seed_int(seed)
    IN  [track_condition |-> em["track_condition"],
         curve |-> em["curve_severity"],
         grad |-> em["gradient_index"],
         age |-> em["track_age"],
         switch_density |->
             MulDiv(em["switch_count_norm"], 1000, Max(1000, distance_km)),
         max_speed |-> em["max_allowed_speed_kmh"],
         gauge_var |-> 10 * ShiftMod(seed, 17, 100),
         drainage |-> em["drainage_risk"],
         ballast |-> em["ballast_condition"],
         embank |-> em["embankment_susceptibility"],
         signal_gap |-> signal_gap(src, tgt, big, rand),
         switch_cond |-> em["switch_condition"],
         electr_health |-> em["electrification_health"],
         thermal_risk |-> (2 * rand) \div 10,
         utilization_proxy |-> utilization_proxy(src, tgt, big),
         seg_len_km |-> distance_km,
         maintenance_overdue |->
             (em["track_age"] * (300 + (7 * rand) \div 10)) \div 1000,
         ballast_uniform |-> 1000 - em["ballast_condition"],
         lateral_clearance |-> 1000 - em["curve_severity"]]

\* An accumulator after the first n edges.
RECURSIVE sum_of(_, _, _)
sum_of(terms, key, n) ==
    IF n = 0 THEN 0 ELSE sum_of(terms, key, n - 1) + terms[n][key]

RECURSIVE max_speed_seen_of(_, _)
max_speed_seen_of(terms, n) ==
    IF n = 0 THEN 0
    ELSE Max(max_speed_seen_of(terms, n - 1), terms[n]["max_speed"])

\* _clamp(sum / n_edges)
average_of(terms, key, n_edges) ==
    _clamp(sum_of(terms, key, n_edges) \div n_edges)

\* { f"p{21+i}": 0.0 for i in range(20) }
TrackKeys ==
    {"p21", "p22", "p23", "p24", "p25", "p26", "p27", "p28", "p29", "p30",
     "p31", "p32", "p33", "p34", "p35", "p36", "p37", "p38", "p39", "p40"}

safe_defaults == [k \in TrackKeys |-> 0]

\* The averages and the returned dict (from the end of the loop on), given
\* what each pass of the loop added.
track_averages(per_edge, n_edges) ==
    LET avg(name) == average_of(per_edge, name, n_edges)
        avg_track_condition == avg("track_condition")
        avg_curve == avg("curve")
        avg_gradient == avg("grad")
        avg_age == avg("age")
        avg_drainage == avg("drainage")
        avg_ballast == avg("ballast")
        maintenance_overdue == avg("maintenance_overdue")
        ballast_uniformity == avg("ballast_uniform")
        aggregate_track_risk ==
            _clamp((200 * avg_track_condition + 150 * avg_curve
                      + 100 * avg_gradient + 100 * avg_age
                      + 100 * avg_drainage
                      + 100 * (1000 - ballast_uniformity)
                      + 150 * maintenance_overdue) \div 1000)
    IN  [p21 |-> avg_track_condition,
         p22 |-> avg_curve,
         p23 |-> avg_gradient,
         p24 |-> avg_age,
         p25 |-> _clamp(avg("switch_density")),
         p26 |-> _normalize_speed_kmh(max_speed_seen_of(per_edge, n_edges)),
         p27 |-> avg("gauge_var"),
         p28 |-> avg_drainage,
         p29 |-> avg_ballast,
         p30 |-> avg("embank"),
         p31 |-> avg("signal_gap"),
         p32 |-> avg("switch_cond"),
         p33 |-> avg("electr_health"),
         p34 |-> avg("thermal_risk"),
         p35 |-> _clamp(sum_of(per_edge, "utilization_proxy", n_edges)
                          \div (2 * n_edges)),
         p36 |-> _clamp(sum_of(per_edge, "seg_len_km", n_edges)
                          \div (n_edges * 100)),
         p37 |-> maintenance_overdue,
         p38 |-> _clamp(1000 - avg_ballast),
         p39 |-> avg("lateral_clearance"),
         p40 |-> aggregate_track_risk]

\* compute_track_parameters from line 107 on, for a non-empty edge list.
\* stations[:5] of a mapping raises (TypeError; KeyError from Python 3.12).
track_aggregate(stations, edges, default_segment_km) ==
    IF "list" \notin DOMAIN stations THEN [raised |-> "TypeError"]
    ELSE track_averages(
             [i \in 1..Len(edges) |->
                 edge_terms(stations["list"],
                            big_station_ids_of(stations["list"]),
                            edges[i], default_segment_km)],
             Len(edges))

\* compute_track_parameters looking at the stations before the edges.
compute_track_parameters_stations_first(stations, edges) ==
    IF "list" \notin DOMAIN stations THEN [raised |-> "TypeError"]
    ELSE IF edges = <<>> THEN safe_defaults
    ELSE track_aggregate(stations, edges, 10000)

\* compute_track_parameters(stations, edges), default_segment_km = 10.0.
compute_track_parameters(stations, edges) ==
    IF edges = <<>> THEN safe_defaults
    ELSE track_aggregate(stations, edges, 10000)

----------------------------------------------------------------------------
(* Requests to the track indicators *)

\* Longest edge list of a request.
MaxEdges == 2

\* A station dict; coords is <<>>, <<lat>> or <<lat, lon>>.
Station(id, coords) ==
    [id |-> id]
      @@ (IF Len(coords) >= 1 THEN [lat |-> coords[1]] ELSE <<>>)
      @@ (IF Len(coords) >= 2 THEN [lon |-> coords[2]] ELSE <<>>)

\* Where the stations lie, in 1e-5 degree.
StationCoords ==
    [DEL |-> <<2861390, 7720900>>, GZB |-> <<2866920, 7745380>>,
     AGC |-> <<2716170, 7800810>>, CNB |-> <<2644990, 8033190>>,
     LKO |-> <<2684670, 8094620>>, BSB |-> <<2531760, 8297390>>]

\* The stations named by ids, each with the first fields of its lat, lon.
StationsOf(ids, fields) ==
    [i \in 1..Len(ids) |->
        Station(ids[i], SubSeq(StationCoords[ids[i]], 1, fields))]

\* Six stations; BSB is the sixth, and the fifth where LKO and BSB swap.
SixStations == <<"DEL", "GZB", "AGC", "CNB", "LKO", "BSB">>

SixStationsSwapped == <<"DEL", "GZB", "AGC", "CNB", "BSB", "LKO">>

TrackStationChoices ==
    {StationList(<<>>),
     StationList(StationsOf(<<"DEL", "GZB", "AGC">>, 2)),
     StationList(StationsOf(<<"DEL", "GZB", "AGC">>, 1)),
     StationList(StationsOf(SixStations, 2)),
     StationList(StationsOf(SixStationsSwapped, 2)),
     StationList(StationsOf(SixStations, 0)),
     StationMapping(<<>>),
     StationMapping([DEL |-> Station("DEL", StationCoords["DEL"])])}

\* Edge dicts: between known stations, to an unknown one, without target,
\* without both.
TrackEdgeChoices ==
    {[source |-> "DEL", target |-> "GZB"],
     [source |-> "GZB", target |-> "AGC"],
     [source |-> "CNB", target |-> "BSB"],
     [source |-> "BSB", target |-> "XXX"],
     [source |-> "DEL"],
     <<>>}

RECURSIVE EdgeLists(_)
EdgeLists(n) ==
    IF n = 0 THEN {<<>>}
    ELSE EdgeLists(n - 1)
           \cup {Append(l, e) : l \in {m \in EdgeLists(n - 1) : Len(m) = n - 1},
                                e \in TrackEdgeChoices}

TrackEdgeLists == EdgeLists(MaxEdges)

InitTrack ==
    /\ trackStations \in TrackStationChoices
    /\ trackEdges \in TrackEdgeLists
    /\ trackResult = <<>>
    /\ edgeLog = <<>> /\ trackLog = <<>>
    /\ IdleDecide /\ IdleTrain /\ IdleStation
    /\ IdleSeg /\ IdleP140 /\ IdleEndpoint

\* One call compute_track_parameters(trackStations, trackEdges).
ComputeTrackParameters ==
    /\ trackResult = <<>>
    /\ trackResult' = compute_track_parameters(trackStations, trackEdges)
    /\ UNCHANGED <<trackStations, trackEdges, edgeLog, trackLog, decideVars,
                   trainVars, stationVars, segVars, p140Vars, endpointVars>>

NextTrack == ComputeTrackParameters

SpecTrack == InitTrack /\ [][NextTrack]_vars

----------------------------------------------------------------------------
(* Claims about the track indicators, checked under SpecTrack *)

TrackCalled == trackResult # <<>>

TrackReturned == TrackCalled /\ "raised" \notin DOMAIN trackResult

StationsIsList == "list" \in DOMAIN trackStations

\* C12: with an empty edge list compute_track_parameters returns exactly
\* the twenty keys p21..p40, each 0.0, whatever the stations argument is
\* (empty or not, a list or a mapping), and raises nothing.
C12_EmptyEdgesSafeDefaults ==
    (TrackCalled /\ trackEdges = <<>>) =>
        /\ DOMAIN trackResult = TrackKeys
        /\ Cardinality(DOMAIN trackResult) = 20
        /\ \A k \in TrackKeys : trackResult[k] = 0

\* C12 witness: a non-empty mapping of stations and no edge gave the
\* twenty zeros.
C12_Witness ==
    /\ TrackCalled
    /\ trackEdges = <<>>
    /\ "mapping" \in DOMAIN trackStations
    /\ trackStations["mapping"] # <<>>
    /\ trackResult["p21"] = 0
    /\ trackResult["p40"] = 0

----------------------------------------------------------------------------
(* Repeated calls of the track indicators *)

\* Calls of compute_edge_metrics in one run.
MaxEdgeCalls == 3

\* Calls of compute_track_parameters in one run.
MaxTrackCalls == 2

EdgeCallIds == {"DEL-GZB", "BSB-XXX", "None-None"}

\* distance_km of a call: the default 1.0, or 27.75 km.
EdgeCallDistances == {1000, 27750}

InitTrackCalls ==
    /\ trackStations \in {StationList(<<>>),
                          StationList(StationsOf(<<"DEL", "GZB", "AGC">>, 2))}
    /\ trackEdges \in {<<>>,
                       <<[source |-> "DEL", target |-> "GZB"]>>,
                       <<[source |-> "DEL", target |-> "GZB"],
                         [source |-> "GZB", target |-> "AGC"]>>}
    /\ trackResult = <<>>
    /\ edgeLog = <<>> /\ trackLog = <<>>
    /\ IdleDecide /\ IdleTrain /\ IdleStation
    /\ IdleSeg /\ IdleP140 /\ IdleEndpoint

\* One call compute_edge_metrics(edge_id, distance_km), logged with what it
\* returned.
CallEdgeMetrics ==
    /\ Len(edgeLog) < MaxEdgeCalls
    /\ \E edge_id \in EdgeCallIds, distance_km \in EdgeCallDistances :
          edgeLog' = Append(edgeLog,
                            [edge_id |-> edge_id,
                             distance_km |-> distance_km,
                             metrics |->
                                 compute_edge_metrics(edge_id, distance_km)])
    /\ UNCHANGED <<trackStations, trackEdges, trackResult, trackLog,
                   decideVars, trainVars, stationVars, segVars, p140Vars,
                   endpointVars>>

\* One more call compute_track_parameters(trackStations, trackEdges),
\* logged with what it returned.
CallTrackParameters ==
    /\ Len(trackLog) < MaxTrackCalls
    /\ trackLog' = Append(trackLog,
                          compute_track_parameters(trackStations, trackEdges))
    /\ UNCHANGED <<trackStations, trackEdges, trackResult, edgeLog,
                   decideVars, trainVars, stationVars, segVars, p140Vars,
                   endpointVars>>

NextTrackCalls == CallEdgeMetrics \/ CallTrackParameters

SpecTrackCalls == InitTrackCalls /\ [][NextTrackCalls]_vars

----------------------------------------------------------------------------
(* Claims about the busy edges and the ranges, checked under SpecTrack *)

\* A call on a list of stations and at least one edge.
Aggregated == TrackReturned /\ StationsIsList /\ trackEdges # <<>>

\* The ids of the first five stations of the call.
FirstFive ==
    {trackStations["list"][i]["id"] :
        i \in 1..Min(5, Len(trackStations["list"]))}

SourceAt(i) == Get(trackEdges[i], "source", "None")

TargetAt(i) == Get(trackEdges[i], "target", "None")

\* Edge i has its source or its target among the first five stations.
TouchesBig(i) == SourceAt(i) \in FirstFive \/ TargetAt(i) \in FirstFive

\* The pseudo-random number of edge i, in thousandths.
RandAt(i) ==
    _rand_from_seed_int(_seed_from_str(SourceAt(i) \o "-" \o TargetAt(i)))

\* The sum of the weights 2.0 (busy) and 1.0 over the first n edges.
RECURSIVE WeightSum(_, _)
WeightSum(busy, n) ==
    IF n = 0 THEN 0
    ELSE WeightSum(busy, n - 1) + (IF busy[n] THEN 2000 ELSE 1000)

\* The sum of 0.2 * rand (busy) and 0.5 * rand over the first n edges.
RECURSIVE GapSum(_, _)
GapSum(busy, n) ==
    IF n = 0 THEN 0
    ELSE GapSum(busy, n - 1)
           + (IF busy[n] THEN (2 * RandAt(n)) \div 10
                         ELSE (5 * RandAt(n)) \div 10)

\* p35 and p31 as they come out when busy says which edges are busy.
P35With(busy) ==
    Clamp(WeightSum(busy, Len(trackEdges)) \div (2 * Len(trackEdges)),
          0, 1000)

P31With(busy) ==
    Clamp(GapSum(busy, Len(trackEdges)) \div Len(trackEdges), 0, 1000)

\* C14: an edge is busy exactly when its source or its target is
\* among the first five stations, and that one classification gives both
\* the utilization weight 2.0 against 1.0 behind p35 and the signal-gap
\* factor 0.2 against 0.5 behind p31.
C14_BusyWhenTouchingBig ==
    Aggregated =>
        LET busy == [i \in 1..Len(trackEdges) |-> TouchesBig(i)]
        IN  /\ trackResult["p35"] = P35With(busy)
            /\ trackResult["p31"] = P31With(busy)

\* The metrics compute_track_parameters got for edge i of the call.
EdgeMetricsAt(i) ==
    compute_edge_metrics(
        SourceAt(i) \o "-" \o TargetAt(i),
        edge_distance_km(trackStations["list"], SourceAt(i), TargetAt(i),
                         10000))

\* C18: for a non-empty edge list and any list of stations (with or
\* without coordinates, endpoints known or not) every one of p21..p40 lies
\* in [0, 1], and the max_allowed_speed_kmh of every edge lies in
\* [40, 200].
C18_RangesOfTrackIndicators ==
    Aggregated =>
        /\ DOMAIN trackResult = TrackKeys
        /\ \A k \in TrackKeys : trackResult[k] >= 0 /\ trackResult[k] <= 1000
        /\ \A i \in 1..Len(trackEdges) :
              /\ EdgeMetricsAt(i)["max_allowed_speed_kmh"] >= 40000
              /\ EdgeMetricsAt(i)["max_allowed_speed_kmh"] <= 200000

\* C18 witness: the 178 km edge GZB-AGC alone had p36 and p21 cut at 1.0,
\* and its speed limit was 126.2 km/h.
C18_Witness ==
    /\ Aggregated
    /\ trackStations = StationList(StationsOf(SixStations, 2))
    /\ trackEdges = <<[source |-> "GZB", target |-> "AGC"]>>
    /\ trackResult["p36"] = 1000
    /\ trackResult["p21"] = 1000
    /\ EdgeMetricsAt(1)["max_allowed_speed_kmh"] = 126200
    /\ EdgeMetricsAt(1)["distance_km"] = 178155

----------------------------------------------------------------------------
(* Track segmentation: track_segmenter.py *)

\* stations maps a station name to a dict with lat and lon in units of
\* 1e-5 degree; segment_length is in metres.  The haversine the module
\* imports is the geodesy utility above, in micrometres.

\* generate_segment_environment(segment_id, distance_meters): an opaque
\* attribute mapping, here the arguments it was generated from.
generate_segment_environment(segment_id, distance_meters) ==
    [segment_id |-> segment_id, distance_meters |-> distance_meters]

\* num_segments rounding the quotient up.
num_segments_rounded_up(total_dist, segment_length) ==
    Max(1, (total_dist + segment_length * 1000000 - 1)
              \div (segment_length * 1000000))

\* max(1, int(total_dist // segment_length))
num_segments_of(total_dist, segment_length) ==
    Max(1, total_dist \div (segment_length * 1000000))

\* f"{u}-{v}-{i}"
segment_id_of(u, v, i) == u \o "-" \o v \o "-" \o ToString(i)

\* The segment dict of pass i of the loop (lines 24-45).
segment_of(A, B, u, v, i, num_segments, segment_length) ==
    LET lat1 == A["lat"]
        lon1 == A["lon"]
        lat2 == B["lat"]
        lon2 == B["lon"]
        segment_id == segment_id_of(u, v, i)
    IN  [id |-> segment_id,
         start |-> [lat |-> lat1 + ((lat2 - lat1) * i) \div num_segments,
                    lon |-> lon1 + ((lon2 - lon1) * i) \div num_segments],
         end |-> [lat |-> lat1 + ((lat2 - lat1) * (i + 1)) \div num_segments,
                  lon |-> lon1 + ((lon2 - lon1) * (i + 1)) \div num_segments],
         env |-> generate_segment_environment(segment_id, segment_length)]

\* What a call of segment_track does when both stations are there with
\* their coordinates: the segments it returns and the segment ids it asked
\* the generator for, in the order of the calls.
segment_loop(A, B, u, v, segment_length) ==
    LET total_dist == haversine(A["lat"], A["lon"], B["lat"], B["lon"])
        num_segments == num_segments_of(total_dist, segment_length)
        segments == [k \in 1..num_segments |->
                        segment_of(A, B, u, v, k - 1, num_segments,
                                   segment_length)]
    IN  [segments |-> segments,
         generated |-> [k \in 1..num_segments |-> segments[k]["id"]]]

\* segment_track putting a missing station at (0, 0).
segment_track_default_origin(stations, u, v, segment_length) ==
    LET origin == [lat |-> 0, lon |-> 0]
    IN  segment_loop(Get(stations, u, origin) @@ origin,
                     Get(stations, v, origin) @@ origin,
                     u, v, segment_length)

\* segment_track(stations, u, v, segment_length): stations[u], stations[v]
\* and the four coordinate reads raise KeyError before the loop starts.
segment_track(stations, u, v, segment_length) ==
    IF \/ u \notin DOMAIN stations
       \/ v \notin DOMAIN stations
       \/ ~({"lat", "lon"} \subseteq DOMAIN stations[u])
       \/ ~({"lat", "lon"} \subseteq DOMAIN stations[v])
    THEN [raised |-> "KeyError", generated |-> <<>>]
    ELSE segment_loop(stations[u], stations[v], u, v, segment_length)

----------------------------------------------------------------------------
(* Requests to the track segmentation *)

\* Longest station name list of a segmentation request.
MaxSegStations == 5

\* Station names; the last ones are left out of smaller mappings.
SegNames == <<"A", "B", "C", "D", "E", "F">>

\* Where they lie: B is 250.2 m from A, C 55.6 m, D 1000.7 m; E has no lon.
SegCoords ==
    [A |-> [lat |-> 0, lon |-> 0], B |-> [lat |-> 0, lon |-> 225],
     C |-> [lat |-> 0, lon |-> 50], D |-> [lat |-> 540, lon |-> 720],
     E |-> [lat |-> 10], F |-> [lat |-> 90, lon |-> 0]]

\* The mapping of the first n station names.
SegStationsOf(n) ==
    [name \in {SegNames[i] : i \in 1..n} |-> SegCoords[name]]

SegStationChoices == {SegStationsOf(n) : n \in {0, 2, MaxSegStations}}

SegEndpoints == {SegNames[i] : i \in 1..Len(SegNames)}

SegLengths == {100, 250}

InitSeg ==
    /\ segStations \in SegStationChoices
    /\ segEdge \in [u : SegEndpoints, v : SegEndpoints,
                    segment_length : SegLengths]
    /\ segResult = <<>>
    /\ IdleDecide /\ IdleTrain /\ IdleStation
    /\ IdleTrack /\ IdleP140 /\ IdleEndpoint

\* One call segment_track(segStations, u, v, segment_length).
SegmentTrack ==
    /\ segResult = <<>>
    /\ segResult' = segment_track(segStations, segEdge["u"], segEdge["v"],
                                  segEdge["segment_length"])
    /\ UNCHANGED <<segStations, segEdge, decideVars, trainVars, stationVars,
                   trackVars, p140Vars, endpointVars>>

NextSeg == SegmentTrack

SpecSeg == InitSeg /\ [][NextSeg]_vars

----------------------------------------------------------------------------
(* Claims about the track segmentation, checked under SpecSeg *)

SegCalled == segResult # <<>>

SegReturned == SegCalled /\ "segments" \in DOMAIN segResult

\* The great-circle distance between the two stations of the call, in
\* metres rounded down.
TotalDistanceMetres ==
    haversine(segStations[segEdge["u"]]["lat"], segStations[segEdge["u"]]["lon"],
              segStations[segEdge["v"]]["lat"], segStations[segEdge["v"]]["lon"])
        \div 1000000

\* The number of whole segment lengths in the distance, at least 1.
WholeSegments ==
    IF TotalDistanceMetres < segEdge["segment_length"] THEN 1
    ELSE TotalDistanceMetres \div segEdge["segment_length"]

\* C15: segment_track returns exactly max(1, floor(total_distance /
\* segment_length)) segments (250 m in 100 m segments are 2, an edge shorter
\* than a segment is 1), their ids are "u-v-0" .. "u-v-(n-1)" in order and
\* pairwise distinct, and the segment-environment generator is called
\* exactly once per segment, with that segment's id.
C15_SegmentCountAndIds ==
    SegReturned =>
        LET segments == segResult["segments"]
            generated == segResult["generated"]
        IN  /\ Len(segments) = WholeSegments
            /\ \A k \in 1..Len(segments) :
                  segments[k]["id"]
                    = segEdge["u"] \o "-" \o segEdge["v"] \o "-"
                        \o ToString(k - 1)
            /\ \A j, k \in 1..Len(segments) :
                  j # k => segments[j]["id"] # segments[k]["id"]
            /\ Len(generated) = Len(segments)
            /\ \A k \in 1..Len(segments) : generated[k] = segments[k]["id"]

\* C15 witness: the 250 m from A to B in 100 m segments came out as the two
\* segments A-B-0 and A-B-1, each generated once.
C15_Witness ==
    /\ SegReturned
    /\ segEdge = [u |-> "A", v |-> "B", segment_length |-> 100]
    /\ TotalDistanceMetres = 250
    /\ Len(segResult["segments"]) = 2
    /\ segResult["generated"] = <<"A-B-0", "A-B-1">>

\* C16: when u or v is not a key of stations, segment_track raises; it
\* puts no default coordinates in their place, returns no segments and has
\* not called the segment-environment generator.
C16_UnknownStationRaises ==
    (SegCalled /\ (\/ segEdge["u"] \notin DOMAIN segStations
                   \/ segEdge["v"] \notin DOMAIN segStations)) =>
        /\ "raised" \in DOMAIN segResult
        /\ segResult["raised"] = "KeyError"
        /\ "segments" \notin DOMAIN segResult
        /\ segResult["generated"] = <<>>

\* C16 witness: a call from A to D on a mapping that holds A and B only
\* raised KeyError.
C16_Witness ==
    /\ SegCalled
    /\ DOMAIN segStations = {"A", "B"}
    /\ segEdge["u"] = "A"
    /\ segEdge["v"] = "D"
    /\ segResult = [raised |-> "KeyError", generated |-> <<>>]

----------------------------------------------------------------------------
(* The combined engine: compute140Parameters.py *)

\* The keyword arguments compute140Parameters builds for one station dict
\* (lines 19-30); adhesion_mu, reaction_time_s, cv_interarrival and
\* margin_factor are in thousandths.
station_arguments(station_data) ==
    [station_length_m |-> Get(station_data, "station_length_m", 400),
     platform_length_m |-> Get(station_data, "platform_length_m", 250),
     num_platforms |-> Get(station_data, "num_platforms", 2),
     avg_train_length_m |-> Get(station_data, "avg_train_length_m", 200),
     arrival_rate_per_hr |-> Get(station_data, "arrival_rate_per_hr", 4),
     avg_dwell_s |-> Get(station_data, "avg_dwell_s", 150),
     avg_approach_speed_kmh |->
         Get(station_data, "avg_approach_speed_kmh", 80),
     adhesion_mu |-> Get(station_data, "adhesion_mu", 350),
     reaction_time_s |-> Get(station_data, "reaction_time_s", 1500),
     safety_buffer_s |-> Get(station_data, "safety_buffer_s", 30),
     cv_interarrival |-> Get(station_data, "cv_interarrival", 1000),
     margin_factor |-> Get(station_data, "margin_factor", 1000)]

\* The loop over the stations (lines 13-32): each id keyed to the
\* parameters of the last station that carries it, or the exception of a
\* helper.
station_params_loop(station_list) ==
    LET n == Len(station_list)
        params == [i \in 1..n |->
                      compute_station_parameters(
                          station_arguments(station_list[i]))]
        last(id) == CHOOSE i \in 1..n :
                        /\ station_list[i]["id"] = id
                        /\ \A j \in (i + 1)..n : station_list[j]["id"] # id
    IN  IF \E i \in 1..n : "raised" \in DOMAIN params[i]
        THEN [raised |-> "ZeroDivisionError"]
        ELSE [id \in {station_list[i]["id"] : i \in 1..n} |->
                 params[last(id)]]

\* station_params of a stations argument.  Iterating a mapping yields its
\* keys, and a key has no get.
station_params_of(stations) ==
    IF "list" \in DOMAIN stations
    THEN station_params_loop(stations["list"])
    ELSE IF stations["mapping"] = <<>> THEN <<>>
    ELSE [raised |-> "AttributeError"]

\* compute140Parameters(trains, stations, edges): the triple returned (as
\* returned), or the exception raised on the way.
compute140Parameters(trains, stations, edges) ==
    LET train_params == compute_train_parameters(trains).results
        station_params == station_params_of(stations)
        track_params == compute_track_parameters(stations, edges)
    IN  IF "raised" \in DOMAIN station_params THEN station_params
        ELSE IF "raised" \in DOMAIN track_params THEN track_params
        ELSE [returned |-> <<train_params, station_params, track_params>>]

----------------------------------------------------------------------------
(* Requests to the combined engine *)

P140StationChoices ==
    {StationMapping(<<>>),
     StationList(<<>>),
     StationList(StationsOf(<<"DEL", "GZB", "AGC">>, 2)),
     StationList(<<[id |-> "DEL", num_platforms |-> 0, avg_dwell_s |-> 0,
                    safety_buffer_s |-> 0]>>),
     StationMapping([DEL |-> Station("DEL", StationCoords["DEL"])])}

InitP140 ==
    /\ p140Args \in [trains : TrainLists(0) \cup TrainLists(1),
                     stations : P140StationChoices,
                     edges : EdgeLists(1)]
    /\ p140Result = <<>>
    /\ IdleDecide /\ IdleTrain /\ IdleStation
    /\ IdleTrack /\ IdleSeg /\ IdleEndpoint

\* One call compute140Parameters(trains, stations, edges).
Compute140Parameters ==
    /\ p140Result = <<>>
    /\ p140Result' = compute140Parameters(p140Args["trains"],
                                          p140Args["stations"],
                                          p140Args["edges"])
    /\ UNCHANGED <<p140Args, decideVars, trainVars, stationVars, trackVars,
                   segVars, endpointVars>>

NextP140 == Compute140Parameters

SpecP140 == InitP140 /\ [][NextP140]_vars

----------------------------------------------------------------------------
(* Claims about the combined engine, checked under SpecP140 *)

P140Called == p140Result # <<>>

\* C17: called with one train, no stations and no edges, compute140Parameters
\* returns a triple whose first element maps the train's id to exactly 20
\* indicators p1..p20 and whose second and third elements are both the
\* empty mapping.
C17_OneTrainEmptyNetwork ==
    (/\ P140Called
     /\ Len(p140Args["trains"]) = 1
     /\ p140Args["stations"] \in {StationMapping(<<>>), StationList(<<>>)}
     /\ p140Args["edges"] = <<>>) =>
        /\ "returned" \in DOMAIN p140Result
        /\ Len(p140Result["returned"]) = 3
        /\ LET id == p140Args["trains"][1]["id"]
               train_params == p140Result["returned"][1]
           IN  /\ DOMAIN train_params = {id}
               /\ DOMAIN train_params[id] = IndicatorNames
               /\ Cardinality(DOMAIN train_params[id]) = 20
        /\ p140Result["returned"][2] = <<>>
        /\ p140Result["returned"][3] = <<>>

----------------------------------------------------------------------------
(* The listing order of the two trains, checked under SpecDecide *)

\* What decide_collision_action returns for the first two trains of the
\* request listed the other way round.
SwappedDecision ==
    decide_collision_action(<<decideTrains[2], decideTrains[1]>>)

\* C20: decide_collision_action does not depend on the order in which the
\* two trains are listed.  For two trains A and B with distinct ids the
\* results for [A, B] and for [B, A] have the same action, and when that is
\* STOP_ONE the same stop_train and the same let_pass, which differ and are
\* the ids of A and B; only the reason text may differ.
C20_ListingOrderIndependent ==
    (Decided /\ HasPair /\ decideTrains[1]["id"] # decideTrains[2]["id"]) =>
        /\ "action" \in DOMAIN decision
        /\ "action" \in DOMAIN SwappedDecision
        /\ SwappedDecision["action"] = decision["action"]
        /\ decision["action"] = "STOP_ONE" =>
             /\ SwappedDecision["stop_train"] = decision["stop_train"]
             /\ SwappedDecision["let_pass"] = decision["let_pass"]
             /\ decision["stop_train"] # decision["let_pass"]
             /\ {decision["stop_train"], decision["let_pass"]}
                  = {decideTrains[1]["id"], decideTrains[2]["id"]}
        /\ decision["action"] # "STOP_ONE" =>
             /\ "stop_train" \notin DOMAIN SwappedDecision
             /\ "let_pass" \notin DOMAIN SwappedDecision

\* C20 witness: two trains far apart with the same priority, the second
\* listed the faster: the first is stopped in either order, for the reason
\* "Train B faster" in one and "Train A faster" in the other.
C20_Witness ==
    /\ Decided /\ FarApart
    /\ Len(decideTrains) = 2
    /\ PriorityOf(decideTrains[1]) = PriorityOf(decideTrains[2])
    /\ SpeedOf(decideTrains[2]) > SpeedOf(decideTrains[1])
    /\ decision["action"] = "STOP_ONE"
    /\ decision["stop_train"] = decideTrains[1]["id"]
    /\ decision["let_pass"] = decideTrains[2]["id"]
    /\ decision["reason"] = "Train B faster"
    /\ SwappedDecision["stop_train"] = decideTrains[1]["id"]
    /\ SwappedDecision["reason"] = "Train A faster"

----------------------------------------------------------------------------
(* The /decide endpoint: extreme_ai_server.py, decide_endpoint *)

\* station_env and segment_env_map are the module's dicts; they outlive a
\* request.  A request body is a dict with trains, stations and edges.

\* generate_station_environment(name): an opaque attribute mapping, here
\* the name it was generated for.
generate_station_environment(name) == [station |-> name]

\* station_env after the loop of lines 160-162: every station of the
\* request has an environment, those that had one keep it.
station_env_after(env, stations) ==
    [name \in DOMAIN env \cup DOMAIN stations |->
        IF name \in DOMAIN env THEN env[name]
        ELSE generate_station_environment(name)]

\* The loop of lines 166-168 from edge i on, started on the cleared dict:
\* the dict as the loop leaves it, and whether segment_track raised.
RECURSIVE segment_env_loop(_, _, _, _)
segment_env_loop(stations, edges, i, map) ==
    IF i > Len(edges) THEN [map |-> map, raised |-> FALSE]
    ELSE LET u == edges[i][1]
             v == edges[i][2]
             segments == segment_track(stations, u, v, 100)
         IN  IF "raised" \in DOMAIN segments
             THEN [map |-> map, raised |-> TRUE]
             ELSE segment_env_loop(
                      stations, edges, i + 1,
                      ((u \o "-" \o v) :> segments["segments"]) @@ map)

\* Lines 170-182: the answer once the environments are built.
decide_response(trains) ==
    IF Len(trains) < 2
    THEN [action |-> "NO_ACTION", error |-> "Not enough trains"]
    ELSE LET decision_made == decide_collision_action(trains)
         IN  decision_made
               @@ (IF "stop_train" \in DOMAIN decision_made
                   THEN [stop_train_id |-> decision_made["stop_train"]]
                   ELSE <<>>)
               @@ (IF "let_pass" \in DOMAIN decision_made
                   THEN [let_pass_id |-> decision_made["let_pass"]]
                   ELSE <<>>)

\* decide_endpoint on the body data with the two dicts as it finds them:
\* the dicts as it leaves them and what the caller gets, a response or the
\* exception that ended the handler.
decide_endpoint(data, env, map) ==
    LET trains == Get(data, "trains", <<>>)
        stations == Get(data, "stations", <<>>)
        edges == Get(data, "edges", <<>>)
        built == segment_env_loop(stations, edges, 1, <<>>)
    IN  [station_env |-> station_env_after(env, stations),
         segment_env_map |-> built["map"],
         response |-> IF built["raised"] THEN [raised |-> "KeyError"]
                      ELSE decide_response(trains)]

----------------------------------------------------------------------------
(* Requests to the /decide endpoint *)

EndpointStations ==
    {SegStationsOf(0), SegStationsOf(1), SegStationsOf(2), SegStationsOf(3)}

EndpointEdges ==
    {<<>>,
     << <<"A", "A">> >>,
     << <<"A", "B">> >>,
     << <<"A", "C">> >>,
     << <<"A", "B">>, <<"B", "C">> >>,
     << <<"A", "B">>, <<"A", "Z">>, <<"B", "A">> >>}

EndpointTrains ==
    {<<>>,
     <<DecideTrain("T1", <<0, 0>>, <<>>, <<>>),
       DecideTrain("T2", <<31, 0>>, <<>>, <<>>)>>,
     <<DecideTrain("T1", <<0, 0>>, <<1>>, <<80>>),
       DecideTrain("T2", <<540, 720>>, <<2>>, <<80>>)>>,
     <<DecideTrain("T1", <<>>, <<>>, <<>>),
       DecideTrain("T2", <<0, 0>>, <<>>, <<>>)>>}

EndpointRequests ==
    [trains : EndpointTrains, stations : EndpointStations,
     edges : EndpointEdges]

\* The state of the module once loaded (lines 30-31).
InitEndpoint ==
    /\ station_env = <<>>
    /\ segment_env_map = <<>>
    /\ request = <<>>
    /\ response = <<>>
    /\ IdleDecide /\ IdleTrain /\ IdleStation
    /\ IdleTrack /\ IdleSeg /\ IdleP140

\* One POST /decide, from the body to the answer.
DecideEndpoint ==
    \E data \in EndpointRequests :
        LET out == decide_endpoint(data, station_env, segment_env_map)
        IN  /\ request' = data
            /\ station_env' = out["station_env"]
            /\ segment_env_map' = out["segment_env_map"]
            /\ response' = out["response"]
            /\ UNCHANGED <<decideVars, trainVars, stationVars, trackVars,
                           segVars, p140Vars>>

NextEndpoint == DecideEndpoint

SpecEndpoint == InitEndpoint /\ [][NextEndpoint]_vars

----------------------------------------------------------------------------
(* Claims about the /decide endpoint, checked under SpecEndpoint *)

\* An edge of the body d names a station that is not among its stations.
NamesAbsentStation(d) ==
    \E i \in 1..Len(d["edges"]) :
        \/ d["edges"][i][1] \notin DOMAIN d["stations"]
        \/ d["edges"][i][2] \notin DOMAIN d["stations"]

\* C19: a /decide request that fails because one of its edges names a
\* station absent from its stations leaves station_env and segment_env_map
\* exactly as they were before the request, whatever requests came before.
C19_FailedRequestLeavesNoTrace ==
    [][(/\ request' # <<>>
        /\ NamesAbsentStation(request')
        /\ "raised" \in DOMAIN response')
          => /\ station_env' = station_env
             /\ segment_env_map' = segment_env_map]_vars

====
